---- MODULE Spec2Model ----
(***************************************************************************)
(* A model of the ShaderUp renderer (src/src/ShaderUp.ts): construction,   *)
(* the animation-frame loop, setData / setTexture, resize handling,        *)
(* context loss and disposal, together with the parts of the host (DOM     *)
(* canvas, animation-frame queue, WebGL context) the class talks to.       *)
(***************************************************************************)
EXTENDS Integers, Sequences, FiniteSets, TLC

\* ------------------------------------------------------------------ bounds
\* Highest animation-frame handle the host hands out in a checked run.
MaxFrames == 3
\* Largest numInstances tried at construction.
MaxInstances == 2
\* Longest Float32Array handed to setData.
MaxDataLen == 2
\* Most uniforms declared in options.uniforms.
MaxUniforms == 3
\* Most attributes declared in options.attributes.
MaxAttributes == 3

\* --------------------------------------------------------------- constants
\* null, for a handle (frame id, GL object id): `x | null` fields hold 0.
Null == 0
\* gl.drawArrays(gl.TRIANGLES, 0, 3)
FullscreenVertexCount == 3
\* gl2.drawArraysInstanced(gl.TRIANGLES, 0, 6, numInstances)
QuadVertexCount == 6
\* bytes per attribute component (opts.size * 4)
FloatBytes == 4
\* getAttribLocation's answer for a name the program does not have
NotFound == -1
\* UniformInfo.textureUnit left undefined (a non-sampler uniform)
NoUnit == -1
\* what a malformed uniform value converts to (value[0] of a number, a tuple as a scalar)
NaN == -999

UniformTypes == {"float", "vec2", "vec3", "vec4", "int", "sampler2D"}
UNIFORM_TIME == "u_time"
UNIFORM_RESOLUTION == "u_resolution"
ATTRIB_POSITION == "a_position"
ATTRIB_QUAD == "a_quadVertex"
NullLocation == "<null>"

\* Uniform values as the value-bag holds them: null, a number, or a tuple.
UndefinedValue == [t |-> "undefined", v |-> <<>>]
NullValue == [t |-> "null", v |-> <<>>]
Num(n) == [t |-> "num", v |-> <<n>>]
Tuple(s) == [t |-> "tuple", v |-> s]

NoError == [kind |-> "none", log |-> ""]

VARIABLES
  options,   \* the ShaderUpOptions given to the constructor
  env,       \* what the host answers: DOM lookups, contexts, compiler, linker
  phase,     \* "new" (not yet constructed), "ready" (constructed), "failed"
  error,     \* the Error the constructor threw, or NoError
  this,      \* the fields of the ShaderUp object
  canvas,    \* the canvas element: sizes, attached listeners, observers
  raf,       \* the host's animation-frame facility: next handle, pending ones
  gl,        \* the WebGL context: live objects, buffer/texture contents
  op,        \* the operation executed last
  calls      \* the host and GL calls that operation made, in order

vars == <<options, env, phase, error, this, canvas, raf, gl, op, calls>>

\* ------------------------------------------------------------ the machine
\* The mutable world an operation runs in; operations map one to the next.
\* ret is the value the last call returned; error is set by a throw.
World == [this |-> this, canvas |-> canvas, raf |-> raf, gl |-> gl, calls |-> <<>>, ret |-> Null, error |-> NoError]

Thrown(m) == m.error.kind # "none"

Call(m, f, a) == [m EXCEPT !.calls = Append(@, [f |-> f, a |-> a])]

Throw(m, kind, log) == [m EXCEPT !.error = [kind |-> kind, log |-> log]]

\* The calls named f in a call log.
CallsOf(log, f) == SelectSeq(log, LAMBDA c : c.f = f)

Count(log, f) == Len(CallsOf(log, f))

\* ------------------------------------------------- host: animation frames
requestAnimationFrame(m) == [Call(m, "requestAnimationFrame", <<m.raf.next>>) EXCEPT !.raf = [next |-> m.raf.next + 1, pending |-> m.raf.pending \cup {m.raf.next}], !.ret = m.raf.next]

cancelAnimationFrame(m, id) == [Call(m, "cancelAnimationFrame", <<id>>) EXCEPT !.raf.pending = @ \ {id}]

\* ------------------------------------------------------ host: WebGL context
\* A lost context ignores every call and creates nothing (create* return null).
gl_create(m, field, f, a) == IF m.gl.lost THEN [Call(m, f, a) EXCEPT !.ret = Null] ELSE [Call(m, f, a) EXCEPT !.gl.next = @ + 1, !.gl[field] = @ \cup {m.gl.next}, !.ret = m.gl.next]

gl_delete(m, field, f, id) == [Call(m, f, <<id>>) EXCEPT !.gl[field] = @ \ {id}]

gl_bindBuffer(m, buf) == IF m.gl.lost THEN Call(m, "bindBuffer", <<buf>>) ELSE [Call(m, "bindBuffer", <<buf>>) EXCEPT !.gl.arrayBuffer = buf]

\* bufferData replaces the whole store of the bound buffer.
gl_bufferData(m, data) == IF m.gl.lost \/ m.gl.arrayBuffer \notin m.gl.buffers THEN Call(m, "bufferData", <<data>>) ELSE [Call(m, "bufferData", <<data>>) EXCEPT !.gl.bufferData = (m.gl.arrayBuffer :> data) @@ @]

gl_bindTexture(m, unit, tex) == IF m.gl.lost THEN Call(Call(m, "activeTexture", <<unit>>), "bindTexture", <<tex>>) ELSE [Call(Call(m, "activeTexture", <<unit>>), "bindTexture", <<tex>>) EXCEPT !.gl.activeUnit = unit, !.gl.boundTexture = (unit :> tex) @@ @]

gl_texImage2D(m, image) == LET tex == IF m.gl.activeUnit \in DOMAIN m.gl.boundTexture THEN m.gl.boundTexture[m.gl.activeUnit] ELSE Null IN IF m.gl.lost \/ tex \notin m.gl.textures THEN Call(m, "texImage2D", <<image>>) ELSE [Call(m, "texImage2D", <<image>>) EXCEPT !.gl.texImage = (tex :> image) @@ @]

\* The names the linked program exposes are the host's (the GLSL compiler's) answer.
gl_getUniformLocation(name) == IF name \in env.activeUniforms THEN name ELSE NullLocation

gl_getAttribLocation(name) == IF \E i \in 1..Len(env.activeAttribs) : env.activeAttribs[i] = name THEN (CHOOSE i \in 1..Len(env.activeAttribs) : env.activeAttribs[i] = name) - 1 ELSE NotFound

drawingBufferWidth(m) == m.canvas.width
drawingBufferHeight(m) == m.canvas.height

\* ---------------------------------------------------- ShaderUp: frame loop
\* a frame requested without keeping its handle
scheduleFrame_forgetsHandle(m) == requestAnimationFrame(m)

\* this.animationFrameId = requestAnimationFrame(this.boundRender)
scheduleFrame(m) == [requestAnimationFrame(m) EXCEPT !.this.animationFrameId = m.raf.next]

\* start() without the animationFrameId test
start_unguarded(m) == IF ~m.this.isDestroyed THEN scheduleFrame(m) ELSE m

start(m) == IF m.this.animationFrameId = Null /\ ~m.this.isDestroyed THEN scheduleFrame(m) ELSE m

\* stop() that forgets the handle without cancelling the callback
stop_noCancel(m) == IF m.this.animationFrameId # Null THEN [m EXCEPT !.this.animationFrameId = Null] ELSE m

\* stop() that also forgets the program
stop_dropsProgram(m) == IF m.this.animationFrameId # Null THEN [cancelAnimationFrame(m, m.this.animationFrameId) EXCEPT !.this.animationFrameId = Null, !.this.program = Null] ELSE m

stop(m) == IF m.this.animationFrameId # Null THEN [cancelAnimationFrame(m, m.this.animationFrameId) EXCEPT !.this.animationFrameId = Null] ELSE m

\* value as a scalar argument, value[i] as a component argument
Scalar(value) == IF value.t = "num" THEN value.v[1] ELSE NaN
Component(value, i) == IF value.t = "tuple" /\ i < Len(value.v) THEN value.v[i + 1] ELSE NaN

\* The switch on info.type in render's loop over uniformInfo.
submitUniform(m, info, value) ==
  CASE info.type = "float" -> Call(m, "uniform1f", <<info.location, Scalar(value)>>)
    [] info.type = "vec2" -> Call(m, "uniform2f", <<info.location, Component(value, 0), Component(value, 1)>>)
    [] info.type = "vec3" -> Call(m, "uniform3f", <<info.location, Component(value, 0), Component(value, 1), Component(value, 2)>>)
    [] info.type = "vec4" -> Call(m, "uniform4f", <<info.location, Component(value, 0), Component(value, 1), Component(value, 2), Component(value, 3)>>)
    [] info.type = "int" -> Call(m, "uniform1i", <<info.location, Scalar(value)>>)
    [] info.type = "sampler2D" -> IF info.textureUnit # NoUnit THEN Call(m, "uniform1i", <<info.location, info.textureUnit>>) ELSE m
    [] OTHER -> m

\* this.uniforms[name]: undefined for a name the bag does not hold
BagValue(bag, name) == IF name \in DOMAIN bag THEN bag[name] ELSE UndefinedValue

\* the iteration that submits a zero whatever the value-bag holds
writeUniform_zero(m, info) == IF BagValue(m.this.uniforms, info.name).t \in {"null", "undefined"} THEN m ELSE submitUniform(m, info, Num(0))

\* the iteration without the null / undefined test
writeUniform_noSkip(m, info) == submitUniform(m, info, BagValue(m.this.uniforms, info.name))

\* One iteration of that loop: null and undefined values are skipped.
writeUniform(m, info) == IF BagValue(m.this.uniforms, info.name).t \in {"null", "undefined"} THEN m ELSE submitUniform(m, info, BagValue(m.this.uniforms, info.name))

RECURSIVE writeUniforms(_, _)
writeUniforms(m, i) == IF i > Len(m.this.uniformInfo) THEN m ELSE writeUniforms(writeUniform(m, m.this.uniformInfo[i]), i + 1)

\* time arrives in milliseconds (a multiple of 1000 here) and is written in seconds.
writeTime(m, time) == IF m.this.timeLocation # NullLocation THEN Call(m, "uniform1f", <<m.this.timeLocation, time \div 1000>>) ELSE m

writeResolution(m) == IF m.this.resolutionLocation # NullLocation THEN Call(m, "uniform2f", <<m.this.resolutionLocation, drawingBufferWidth(m), drawingBufferHeight(m)>>) ELSE m

\* the fullscreen draw issued in both modes
draw_nonInstanced(m) == Call(m, "drawArrays", <<0, FullscreenVertexCount>>)

\* the instanced draw taking its instance count from the uploaded data
draw_countsData(m) == IF m.this.renderMode = "fullscreen" THEN Call(m, "drawArrays", <<0, FullscreenVertexCount>>) ELSE Call(m, "drawArraysInstanced", <<0, QuadVertexCount, IF m.this.instanceBuffer \in DOMAIN m.gl.bufferData THEN Len(m.gl.bufferData[m.this.instanceBuffer]) ELSE m.this.numInstances>>)

draw(m) == IF m.this.renderMode = "fullscreen" THEN Call(m, "drawArrays", <<0, FullscreenVertexCount>>) ELSE Call(m, "drawArraysInstanced", <<0, QuadVertexCount, m.this.numInstances>>)

\* render() that draws and does not request the next frame
render_once(m, time) == IF m.this.isDestroyed \/ m.this.program = Null THEN m ELSE draw(writeUniforms(writeResolution(writeTime(Call(m, "useProgram", <<m.this.program>>), time)), 1))

render(m, time) == IF m.this.isDestroyed \/ m.this.program = Null THEN m ELSE scheduleFrame(draw(writeUniforms(writeResolution(writeTime(Call(m, "useProgram", <<m.this.program>>), time)), 1)))

\* ------------------------------------------- ShaderUp: data and textures
\* setData() without the isDestroyed test
setData_afterDispose(m, data) == IF m.this.renderMode # "instanced" THEN m ELSE gl_bufferData(gl_bindBuffer(m, m.this.instanceBuffer), data)

\* setData() that draws the instances as soon as they are uploaded
setData_drawsNow(m, data) == IF m.this.renderMode # "instanced" \/ m.this.isDestroyed THEN m ELSE Call(gl_bufferData(gl_bindBuffer(m, m.this.instanceBuffer), data), "drawArraysInstanced", <<0, QuadVertexCount, m.this.numInstances>>)

\* setData() that validates the length: a buffer shorter than one float per instance is dropped
setData_checksLength(m, data) == IF m.this.renderMode # "instanced" \/ m.this.isDestroyed \/ Len(data) < m.this.numInstances THEN m ELSE gl_bufferData(gl_bindBuffer(m, m.this.instanceBuffer), data)

setData(m, data) == IF m.this.renderMode # "instanced" \/ m.this.isDestroyed THEN m ELSE gl_bufferData(gl_bindBuffer(m, m.this.instanceBuffer), data)

\* this.uniformInfo.get(name): the index of the entry, 0 when there is none
InfoIndex(infos, name) == IF \E i \in 1..Len(infos) : infos[i].name = name THEN CHOOSE i \in 1..Len(infos) : infos[i].name = name ELSE 0

\* this.textures.get(unit) / this.textures.set(unit, tex), a Map in insertion order
TexIndex(texs, unit) == IF \E i \in 1..Len(texs) : texs[i].unit = unit THEN CHOOSE i \in 1..Len(texs) : texs[i].unit = unit ELSE 0
TexGet(texs, unit) == IF TexIndex(texs, unit) = 0 THEN Null ELSE texs[TexIndex(texs, unit)].texture
TexSet(texs, unit, tex) == IF TexIndex(texs, unit) = 0 THEN Append(texs, [unit |-> unit, texture |-> tex]) ELSE [texs EXCEPT ![TexIndex(texs, unit)].texture = tex]

\* texture = gl.createTexture()!; this.textures.set(info.textureUnit, texture)
createTextureFor(m, unit) == [gl_create(m, "textures", "createTexture", <<>>) EXCEPT !.this.textures = TexSet(@, unit, IF m.gl.lost THEN Null ELSE m.gl.next)]

\* a texture created on every call
ensureTexture_always(m, unit) == createTextureFor(m, unit)

\* Lazy creation of texture
ensureTexture(m, unit) == IF TexGet(m.this.textures, unit) = Null THEN createTextureFor(m, unit) ELSE m

bindUnit(m, unit) == gl_bindTexture(m, unit, TexGet(m.this.textures, unit))

texParameters(m) == Call(Call(Call(Call(m, "texParameteri", <<"WRAP_S", "CLAMP_TO_EDGE">>), "texParameteri", <<"WRAP_T", "CLAMP_TO_EDGE">>), "texParameteri", <<"MIN_FILTER", "LINEAR">>), "texParameteri", <<"MAG_FILTER", "LINEAR">>)

uploadTexture(m, unit, image) == gl_texImage2D(texParameters(bindUnit(ensureTexture(m, unit), unit)), image)

\* info is usable: registered, sampler-typed, with a texture unit
IsSampler(infos, name) == InfoIndex(infos, name) # 0 /\ infos[InfoIndex(infos, name)].type = "sampler2D" /\ infos[InfoIndex(infos, name)].textureUnit # NoUnit

\* setTexture() that tests only that the name is registered
setTexture_anyRegistered(m, name, image) ==
  IF m.this.isDestroyed THEN m
  ELSE IF InfoIndex(m.this.uniformInfo, name) = 0 THEN Call(m, "console.warn", <<"not a registered sampler2D uniform", name>>)
  ELSE uploadTexture(m, m.this.uniformInfo[InfoIndex(m.this.uniformInfo, name)].textureUnit, image)

setTexture(m, name, image) ==
  IF m.this.isDestroyed THEN m
  ELSE IF ~IsSampler(m.this.uniformInfo, name) THEN Call(m, "console.warn", <<"not a registered sampler2D uniform", name>>)
  ELSE uploadTexture(m, m.this.uniformInfo[InfoIndex(m.this.uniformInfo, name)].textureUnit, image)

\* ------------------------------------------------------ ShaderUp: teardown
RECURSIVE deleteTextures(_, _)
deleteTextures(m, i) == IF i > Len(m.this.textures) THEN m ELSE deleteTextures(gl_delete(m, "textures", "deleteTexture", m.this.textures[i].texture), i + 1)

removeEventListener(m, type) == [Call(m, "removeEventListener", <<type>>) EXCEPT !.canvas.listeners = @ \ {type}]

addEventListener(m, type) == [Call(m, "addEventListener", <<type>>) EXCEPT !.canvas.listeners = @ \cup {type}]

disconnectObserver(m) == IF m.this.resizeObserver THEN [Call(m, "disconnect", <<>>) EXCEPT !.canvas.observed = FALSE, !.this.resizeObserver = FALSE] ELSE m

\* this.textures.clear() without the deleteTexture pass
releaseTextures_clearOnly(m) == [m EXCEPT !.this.textures = <<>>]

releaseTextures(m) == [deleteTextures(m, 1) EXCEPT !.this.textures = <<>>]

releaseInstanceBuffer(m) == IF m.this.instanceBuffer # Null THEN [gl_delete(m, "buffers", "deleteBuffer", m.this.instanceBuffer) EXCEPT !.this.instanceBuffer = Null] ELSE m

releaseProgram(m) == IF m.this.program # Null THEN [gl_delete(m, "programs", "deleteProgram", m.this.program) EXCEPT !.this.program = Null] ELSE m

markDestroyed(m) == [m EXCEPT !.this.isDestroyed = TRUE]

dispose(m) == releaseProgram(releaseInstanceBuffer(releaseTextures(removeEventListener(removeEventListener(disconnectObserver(markDestroyed(stop(m))), "webglcontextlost"), "webglcontextrestored"))))

\* ------------------------------------------------ ShaderUp: event handlers
preventDefault(m) == [Call(m, "preventDefault", <<>>) EXCEPT !.gl.restorable = TRUE]

\* the loss handler without this.stop()
handleContextLost_keepsLoop(m) == Call(preventDefault(m), "console.warn", <<"Context Lost">>)

handleContextLost(m) == Call(stop(preventDefault(m)), "console.warn", <<"Context Lost">>)

handleContextRestored(m) == Call(m, "console.log", <<"Context Restored - Re-initializing...">>)

\* canvas.width = displayWidth; canvas.height = displayHeight
resizeCanvas(m) == [m EXCEPT !.canvas.width = m.canvas.clientWidth, !.canvas.height = m.canvas.clientHeight]

setViewport(m) == Call(m, "viewport", <<0, 0, drawingBufferWidth(m), drawingBufferHeight(m)>>)

notifyResize(m, callback) == IF callback THEN Call(m, "onResize", <<m.canvas.clientWidth, m.canvas.clientHeight>>) ELSE m

\* handleResize() without the size comparison
handleResize_always(m, callback) == notifyResize(setViewport(resizeCanvas(m)), callback)

handleResize(m, callback) == IF m.canvas.width # m.canvas.clientWidth \/ m.canvas.height # m.canvas.clientHeight THEN notifyResize(setViewport(resizeCanvas(m)), callback) ELSE m

\* --------------------------------------------------- ShaderUp: construction
\* a failed compile that throws without deleting the shader
compileShader_keepsHandle(c, type, shader) ==
  IF ~env.compiles[type]
  THEN Throw(Call(Call(Call(c, "shaderSource", <<shader, type>>), "compileShader", <<shader>>), "getShaderInfoLog", <<shader>>), "compile", env.infoLog[type])
  ELSE [Call(Call(c, "shaderSource", <<shader, type>>), "compileShader", <<shader>>) EXCEPT !.ret = shader]

\* The compiler's and linker's verdicts and diagnostics are the host's answers.
\* c is the world after gl.createShader, shader the handle it returned.
compileShader(c, type, shader) ==
  IF ~env.compiles[type]
  THEN Throw(gl_delete(Call(Call(Call(c, "shaderSource", <<shader, type>>), "compileShader", <<shader>>), "getShaderInfoLog", <<shader>>), "shaders", "deleteShader", shader), "compile", env.infoLog[type])
  ELSE [Call(Call(c, "shaderSource", <<shader, type>>), "compileShader", <<shader>>) EXCEPT !.ret = shader]

createShader(m, type) == IF m.gl.lost THEN Throw(gl_create(m, "shaders", "createShader", <<type>>), "create", "Unable to create shader object.") ELSE compileShader(gl_create(m, "shaders", "createShader", <<type>>), type, m.gl.next)

linkProgram(c, vs, fs, program) ==
  IF ~env.links
  THEN Throw(gl_delete(Call(Call(Call(Call(c, "attachShader", <<program, vs>>), "attachShader", <<program, fs>>), "linkProgram", <<program>>), "getProgramInfoLog", <<program>>), "programs", "deleteProgram", program), "link", env.infoLog.program)
  ELSE [Call(Call(Call(c, "attachShader", <<program, vs>>), "attachShader", <<program, fs>>), "linkProgram", <<program>>) EXCEPT !.ret = program]

createProgram(m, vs, fs) == IF m.gl.lost THEN Throw(gl_create(m, "programs", "createProgram", <<>>), "create", "Unable to create program object.") ELSE linkProgram(gl_create(m, "programs", "createProgram", <<>>), vs, fs, m.gl.next)

TriangleVertices == <<-1, -1, 3, -1, -1, 3>>
QuadVertices == <<0, 0, 1, 0, 0, 1, 0, 1, 1, 0, 1, 1>>

\* A geometry buffer: created, bound, filled; the handle is kept in no field.
geometryBuffer(m, vertices) == gl_bufferData(gl_bindBuffer(gl_create(m, "buffers", "createBuffer", <<>>), IF m.gl.lost THEN Null ELSE m.gl.next), vertices)

geometryAttribute(m, loc) == Call(Call(m, "enableVertexAttribArray", <<loc>>), "vertexAttribPointer", <<loc, 2, 0, 0>>)

initFullscreenResources(m) == IF m.this.program = Null THEN m ELSE geometryAttribute(geometryBuffer(m, TriangleVertices), gl_getAttribLocation(ATTRIB_POSITION))

\* the stride summed over the attributes the program has
RECURSIVE Stride_resolvedOnly(_)
Stride_resolvedOnly(attrs) == IF attrs = <<>> THEN 0 ELSE (IF gl_getAttribLocation(Head(attrs).name) = NotFound THEN 0 ELSE Head(attrs).size * FloatBytes) + Stride_resolvedOnly(Tail(attrs))

\* stride += opts.size * 4 over every declared attribute
RECURSIVE Stride(_)
Stride(attrs) == IF attrs = <<>> THEN 0 ELSE Head(attrs).size * FloatBytes + Stride(Tail(attrs))

attribDivisor(m, opts, loc) == IF opts.instanced THEN Call(m, "vertexAttribDivisor", <<loc, 1>>) ELSE m

enableAttribute(m, opts, loc, stride, offset) == attribDivisor(Call(Call(m, "enableVertexAttribArray", <<loc>>), "vertexAttribPointer", <<loc, opts.size, stride, offset>>), opts, loc)

\* The second loop of initInstancedResources, from attribute i at byte offset:
\* a name the program lacks is warned about and skipped, and adds no offset.
RECURSIVE setupAttributes(_, _, _, _)
setupAttributes(m, attrs, i, offset) ==
  IF i > Len(attrs) THEN m
  ELSE IF gl_getAttribLocation(attrs[i].name) = NotFound
  THEN setupAttributes(Call(m, "console.warn", <<"Attribute not found in shader", attrs[i].name>>), attrs, i + 1, offset)
  ELSE setupAttributes(enableAttribute(m, attrs[i], gl_getAttribLocation(attrs[i].name), Stride(attrs), offset), attrs, i + 1, offset + attrs[i].size * FloatBytes)

\* this.instanceBuffer = gl.createBuffer(); gl.bindBuffer(gl.ARRAY_BUFFER, this.instanceBuffer)
createInstanceBuffer(m) == gl_bindBuffer([gl_create(m, "buffers", "createBuffer", <<>>) EXCEPT !.this.instanceBuffer = IF m.gl.lost THEN Null ELSE m.gl.next], IF m.gl.lost THEN Null ELSE m.gl.next)

initInstancedResources(m) == IF m.this.program = Null \/ ~m.this.attributesGiven THEN m ELSE setupAttributes(createInstanceBuffer(geometryAttribute(geometryBuffer(m, QuadVertices), gl_getAttribLocation(ATTRIB_QUAD))), m.this.attributeOptions, 1, 0)

\* every type seeded with the scalar 0
getDefaultUniformValue_scalarZero(type) == Num(0)

getDefaultUniformValue(type) ==
  CASE type = "float" -> Num(0)
    [] type = "vec2" -> Tuple(<<0, 0>>)
    [] type = "vec3" -> Tuple(<<0, 0, 0>>)
    [] type = "vec4" -> Tuple(<<0, 0, 0, 0>>)
    [] type = "int" -> Num(0)
    [] type = "sampler2D" -> NullValue
    [] OTHER -> NullValue

\* info = { location, type }; a sampler2D takes the next texture unit
UniformInfo(name, location, type, texUnitCount) == [name |-> name, location |-> location, type |-> type, textureUnit |-> IF type = "sampler2D" THEN texUnitCount ELSE NoUnit]

registerUniform(m, name, type, location, texUnitCount) == [m EXCEPT !.this.uniformInfo = Append(@, UniformInfo(name, location, type, texUnitCount)), !.this.uniforms = (name :> getDefaultUniformValue(type)) @@ @]

\* the loop with info.textureUnit = texUnitCount and no increment
RECURSIVE registerUniforms_sharedUnit(_, _, _, _)
registerUniforms_sharedUnit(m, decls, i, texUnitCount) ==
  IF i > Len(decls) THEN m
  ELSE IF gl_getUniformLocation(decls[i].name) = NullLocation
  THEN registerUniforms_sharedUnit(Call(m, "console.warn", <<"Uniform not found in shader source", decls[i].name>>), decls, i + 1, texUnitCount)
  ELSE registerUniforms_sharedUnit(registerUniform(m, decls[i].name, decls[i].type, gl_getUniformLocation(decls[i].name), texUnitCount), decls, i + 1, texUnitCount)

\* the loop without the `if (!location) continue` test
RECURSIVE registerUniforms_keepsUnresolved(_, _, _, _)
registerUniforms_keepsUnresolved(m, decls, i, texUnitCount) ==
  IF i > Len(decls) THEN m
  ELSE registerUniforms_keepsUnresolved(registerUniform(m, decls[i].name, decls[i].type, gl_getUniformLocation(decls[i].name), texUnitCount), decls, i + 1, IF decls[i].type = "sampler2D" THEN texUnitCount + 1 ELSE texUnitCount)

\* The loop over Object.entries(options.uniforms), from declaration i.
RECURSIVE registerUniforms(_, _, _, _)
registerUniforms(m, decls, i, texUnitCount) ==
  IF i > Len(decls) THEN m
  ELSE IF gl_getUniformLocation(decls[i].name) = NullLocation
  THEN registerUniforms(Call(m, "console.warn", <<"Uniform not found in shader source", decls[i].name>>), decls, i + 1, texUnitCount)
  ELSE registerUniforms(registerUniform(m, decls[i].name, decls[i].type, gl_getUniformLocation(decls[i].name), texUnitCount), decls, i + 1, IF decls[i].type = "sampler2D" THEN texUnitCount + 1 ELSE texUnitCount)

processUniforms(m, opts) == IF opts.uniformsGiven THEN registerUniforms(m, opts.uniforms, 1, 0) ELSE m

cacheStandardLocations(m) == [m EXCEPT !.this.timeLocation = gl_getUniformLocation(UNIFORM_TIME), !.this.resolutionLocation = gl_getUniformLocation(UNIFORM_RESOLUTION)]

initModeResources(m) == IF m.this.renderMode = "fullscreen" THEN initFullscreenResources(m) ELSE initInstancedResources(m)

deleteShaders(m, vs, fs) == gl_delete(gl_delete(m, "shaders", "deleteShader", vs), "shaders", "deleteShader", fs)

\* initResources after a successful createProgram (p.ret is the program)
setupResources(p, vs, fs, opts) == IF Thrown(p) THEN p ELSE handleResize(processUniforms(cacheStandardLocations(initModeResources(deleteShaders([p EXCEPT !.this.program = p.ret], vs, fs))), opts), opts.onResizeGiven)

\* initResources after the fragment stage (f.ret is the fragment shader)
linkStages(f, vs, opts) == IF Thrown(f) THEN f ELSE setupResources(createProgram(f, vs, f.ret), vs, f.ret, opts)

\* initResources after the vertex stage (v.ret is the vertex shader)
compileFragment(v, opts) == IF Thrown(v) THEN v ELSE linkStages(createShader(v, "fragment"), v.ret, opts)

initResources(m, opts) == compileFragment(createShader(m, "vertex"), opts)

\* the lookup by id that falls back to the first canvas of the page
resolveCanvas_fallsBack(m, opts) ==
  IF opts.canvasGiven THEN [m EXCEPT !.this.canvas = "explicit"]
  ELSE IF opts.canvasIdGiven /\ opts.canvasId # "" /\ env.elementById THEN [Call(m, "getElementById", <<opts.canvasId>>) EXCEPT !.this.canvas = "byId"]
  ELSE IF ~env.firstCanvas THEN Throw(Call(m, "querySelector", <<"canvas">>), "surface", "No <canvas> element found on page.") ELSE [Call(m, "querySelector", <<"canvas">>) EXCEPT !.this.canvas = "first"]

\* Step 1 of the constructor: the canvas element, or a throw. options.canvasId
\* is tested for truthiness: an empty string counts as no id.
resolveCanvas(m, opts) ==
  IF opts.canvasGiven THEN [m EXCEPT !.this.canvas = "explicit"]
  ELSE IF opts.canvasIdGiven /\ opts.canvasId # ""
       THEN IF ~env.elementById THEN Throw(Call(m, "getElementById", <<opts.canvasId>>), "surface", "Canvas not found.") ELSE [Call(m, "getElementById", <<opts.canvasId>>) EXCEPT !.this.canvas = "byId"]
       ELSE IF ~env.firstCanvas THEN Throw(Call(m, "querySelector", <<"canvas">>), "surface", "No <canvas> element found on page.") ELSE [Call(m, "querySelector", <<"canvas">>) EXCEPT !.this.canvas = "first"]

\* canvas.getContext(kind): the context, or null when the host has none.
getContext(m, kind) == IF env[kind] THEN [Call(m, "getContext", <<kind>>) EXCEPT !.gl.kind = kind, !.gl.lost = env.lostAtSetup] ELSE Call(m, "getContext", <<kind>>)

\* fullscreen mode without the WebGL1 fallback
initContext_noFallback(m) == IF env.webgl2 THEN getContext(m, "webgl2") ELSE Throw(getContext(m, "webgl2"), "context", "WebGL not supported in this browser.")

\* Step 2 of the constructor: the context, or a throw.
initContext(m) ==
  IF m.this.renderMode = "instanced"
  THEN IF env.webgl2 THEN getContext(m, "webgl2") ELSE Throw(getContext(m, "webgl2"), "context", "WebGL2 is required for 'instanced' renderMode.")
  ELSE IF env.webgl2 THEN getContext(m, "webgl2")
  ELSE IF env.webgl THEN getContext(getContext(m, "webgl2"), "webgl")
  ELSE Throw(getContext(getContext(m, "webgl2"), "webgl"), "context", "WebGL not supported in this browser.")

\* Step 5: new ResizeObserver(() => this.handleResize(options.onResize)).observe(canvas)
observeResize(m, opts) == IF Thrown(m) THEN m ELSE [Call(Call(m, "new ResizeObserver", <<>>), "observe", <<>>) EXCEPT !.this.resizeObserver = TRUE, !.this.onResize = opts.onResizeGiven, !.canvas.observed = TRUE]

\* Steps 3 and 4: the context-loss listeners, then the resources.
bindEventsAndInit(m, opts) == IF Thrown(m) THEN m ELSE observeResize(initResources(addEventListener(addEventListener(m, "webglcontextlost"), "webglcontextrestored"), opts), opts)

acquireContext(m, opts) == IF Thrown(m) THEN m ELSE bindEventsAndInit(initContext(m), opts)

RenderModeOf(opts) == IF opts.renderMode = "undefined" THEN "fullscreen" ELSE opts.renderMode

\* The fields the validation block sets.
configure(m, opts) == IF RenderModeOf(opts) = "instanced" THEN [m EXCEPT !.this.renderMode = "instanced", !.this.numInstances = opts.numInstances, !.this.attributesGiven = TRUE, !.this.attributeOptions = opts.attributes] ELSE [m EXCEPT !.this.renderMode = "fullscreen", !.this.numInstances = 0]

\* the constructor with the instanced-mode validation after the canvas lookup
constructor_validatesLate(m, opts) ==
  IF Thrown(resolveCanvas(configure(m, opts), opts)) THEN resolveCanvas(configure(m, opts), opts)
  ELSE IF RenderModeOf(opts) = "instanced" /\ (~opts.numInstancesGiven \/ opts.numInstances = 0 \/ ~opts.attributesGiven)
  THEN Throw(resolveCanvas(configure(m, opts), opts), "config", "required for 'instanced' renderMode.")
  ELSE acquireContext(resolveCanvas(configure(m, opts), opts), opts)

constructor(m, opts) ==
  IF RenderModeOf(opts) = "instanced" /\ (~opts.numInstancesGiven \/ opts.numInstances = 0)
  THEN Throw([m EXCEPT !.this.renderMode = "instanced"], "config", "'numInstances' is required for 'instanced' renderMode.")
  ELSE IF RenderModeOf(opts) = "instanced" /\ ~opts.attributesGiven
  THEN Throw([m EXCEPT !.this.renderMode = "instanced"], "config", "'attributes' are required for 'instanced' renderMode.")
  ELSE acquireContext(resolveCanvas(configure(m, opts), opts), opts)

\* ------------------------------------------------------------ input spaces
Sizes == {<<300, 150>>, <<300, 600>>, <<800, 600>>}
Times == {1000, 2000}
Images == {"imgA", "imgB"}
\* Float32Arrays of every length up to MaxDataLen, filled with one of two values
Datas == {[i \in 1..n |-> x] : n \in 0..MaxDataLen, x \in {1, 2}}
AllNames == <<"u_a", "u_b", "u_c", "u_d", "u_e">>
\* options.uniforms with k entries: distinct names, any types, in declaration order
UniformDecls(k) == {[i \in 1..k |-> [name |-> AllNames[i], type |-> ts[i]]] : ts \in [1..k -> UniformTypes]}
NamesOf(decls) == {decls[i].name : i \in 1..Len(decls)}

\* What a caller assigns to shader.uniforms.<name>: undefined, null, a number,
\* a pair.
Values == {UndefinedValue, NullValue, Num(5), Tuple(<<1, 2>>)}

NoOptions == [renderMode |-> "undefined", numInstancesGiven |-> FALSE, numInstances |-> 0, attributesGiven |-> FALSE, attributes |-> <<>>, canvasGiven |-> FALSE, canvasIdGiven |-> FALSE, canvasId |-> "", uniformsGiven |-> FALSE, uniforms |-> <<>>, onResizeGiven |-> FALSE]
GoodEnv == [elementById |-> TRUE, firstCanvas |-> TRUE, webgl2 |-> TRUE, webgl |-> TRUE, lostAtSetup |-> FALSE, compiles |-> [vertex |-> TRUE, fragment |-> TRUE], links |-> TRUE, infoLog |-> [vertex |-> "vertex diagnostic", fragment |-> "fragment diagnostic", program |-> "link diagnostic"], activeUniforms |-> {UNIFORM_TIME, UNIFORM_RESOLUTION, "u_a", "u_b"}, activeAttribs |-> <<ATTRIB_POSITION, ATTRIB_QUAD, "a_offset">>, clientSize |-> <<800, 600>>]

LoopUniforms == <<[name |-> "u_a", type |-> "float"], [name |-> "u_b", type |-> "sampler2D"]>>
LoopAttributes == <<[name |-> "a_offset", size |-> 1, instanced |-> TRUE]>>

\* The configurations the frame loop is followed from: both render modes.
LoopOptions == {[NoOptions EXCEPT !.canvasIdGiven = TRUE, !.canvasId = "main", !.uniformsGiven = TRUE, !.uniforms = LoopUniforms, !.onResizeGiven = TRUE]} \cup {[NoOptions EXCEPT !.renderMode = "instanced", !.numInstancesGiven = TRUE, !.numInstances = n, !.attributesGiven = TRUE, !.attributes = LoopAttributes, !.canvasGiven = TRUE, !.uniformsGiven = TRUE, !.uniforms = LoopUniforms] : n \in 1..MaxInstances}

\* options.canvasId: left out, the empty string, an id
CanvasIds == {"undefined", "", "main"}

\* The constructor's configuration and host space: every early exit of it.
CtorOptions == {[NoOptions EXCEPT !.renderMode = rm, !.numInstancesGiven = ng, !.numInstances = n, !.attributesGiven = ag, !.attributes = IF ag THEN LoopAttributes ELSE <<>>, !.canvasGiven = cg, !.canvasIdGiven = (id # "undefined"), !.canvasId = (IF id = "undefined" THEN "" ELSE id), !.uniformsGiven = TRUE, !.uniforms = LoopUniforms] : rm \in {"undefined", "fullscreen", "instanced"}, ng \in BOOLEAN, n \in 0..MaxInstances, ag \in BOOLEAN, cg \in BOOLEAN, id \in CanvasIds}
CtorEnvs == {[GoodEnv EXCEPT !.elementById = e, !.firstCanvas = fc, !.webgl2 = w2, !.webgl = w1, !.lostAtSetup = l, !.compiles = [vertex |-> vc, fragment |-> fc2], !.links = lk] : e \in BOOLEAN, fc \in BOOLEAN, w2 \in BOOLEAN, w1 \in BOOLEAN, l \in BOOLEAN, vc \in BOOLEAN, fc2 \in BOOLEAN, lk \in BOOLEAN}

\* The uniform registry's space: every declaration list and every set of names
\* the linked program keeps.
RegistryOptions == {[NoOptions EXCEPT !.canvasGiven = TRUE, !.uniformsGiven = TRUE, !.uniforms = d] : d \in UNION {UniformDecls(k) : k \in 0..MaxUniforms}}
RegistryEnvs(o) == {[GoodEnv EXCEPT !.activeUniforms = a] : a \in SUBSET NamesOf(o.uniforms)}

\* The attribute layout's space: every declaration list (names in declaration
\* order, each of 1 to 4 components), with every set of names the program keeps.
AttribNames == <<"a_one", "a_two", "a_three", "a_four", "a_five">>
AttribSizes == 1..4
AttribDecls(k) == {[i \in 1..k |-> [name |-> AttribNames[i], size |-> ss[i], instanced |-> fl]] : ss \in [1..k -> AttribSizes], fl \in BOOLEAN}
AttribOptions == {[NoOptions EXCEPT !.renderMode = "instanced", !.numInstancesGiven = TRUE, !.numInstances = 1, !.attributesGiven = TRUE, !.attributes = d, !.canvasGiven = TRUE] : d \in UNION {AttribDecls(k) : k \in 0..MaxAttributes}}
\* attribute locations follow the order of the program's active attributes
AttribEnvs(o) == {[GoodEnv EXCEPT !.activeAttribs = <<ATTRIB_POSITION, ATTRIB_QUAD>> \o SelectSeq([i \in 1..Len(o.attributes) |-> o.attributes[i].name], LAMBDA n : n \in a)] : a \in SUBSET NamesOf(o.attributes)}

\* The value-bag's space: a few declaration lists (two samplers, a scalar
\* before a sampler, a tuple and an int), each with every set of names the
\* linked program keeps.
BagUniforms == {<<[name |-> "u_a", type |-> "sampler2D"], [name |-> "u_b", type |-> "sampler2D"]>>, <<[name |-> "u_a", type |-> "float"], [name |-> "u_b", type |-> "sampler2D"]>>, <<[name |-> "u_a", type |-> "vec2"], [name |-> "u_b", type |-> "int"]>>}
BagOptions == {[NoOptions EXCEPT !.canvasGiven = TRUE, !.uniformsGiven = TRUE, !.uniforms = d] : d \in BagUniforms}

\* ------------------------------------------------------------------- Init
NewThis == [renderMode |-> "fullscreen", attributesGiven |-> FALSE, attributeOptions |-> <<>>, numInstances |-> 0, canvas |-> "none", program |-> Null, animationFrameId |-> Null, resizeObserver |-> FALSE, isDestroyed |-> FALSE, uniformInfo |-> <<>>, uniforms |-> <<>>, textures |-> <<>>, instanceBuffer |-> Null, timeLocation |-> NullLocation, resolutionLocation |-> NullLocation, onResize |-> FALSE]

NewGL == [kind |-> "none", lost |-> FALSE, restorable |-> FALSE, next |-> 1, shaders |-> {}, programs |-> {}, buffers |-> {}, textures |-> {}, arrayBuffer |-> Null, bufferData |-> <<>>, activeUnit |-> 0, boundTexture |-> <<>>, texImage |-> <<>>]

\* Before construction: nothing attached, no context, an empty frame queue; the
\* canvas has the HTML default backing store of 300 x 150.
InitWith(o, e) ==
  /\ options = o
  /\ env = e
  /\ phase = "new"
  /\ error = NoError
  /\ this = NewThis
  /\ canvas = [width |-> 300, height |-> 150, clientWidth |-> e.clientSize[1], clientHeight |-> e.clientSize[2], listeners |-> {}, observed |-> FALSE]
  /\ raf = [next |-> 1, pending |-> {}]
  /\ gl = NewGL
  /\ op = "none"
  /\ calls = <<>>

\* A page that lays the canvas out at its default backing-store size.
DefaultSizeEnv == [GoodEnv EXCEPT !.clientSize = <<300, 150>>]

Init == \/ \E o \in LoopOptions : InitWith(o, GoodEnv)
        \/ \E o \in LoopOptions : RenderModeOf(o) = "fullscreen" /\ InitWith(o, DefaultSizeEnv)

CtorInit == \/ \E o \in CtorOptions : \E e \in CtorEnvs : (o.numInstancesGiven \/ o.numInstances = 0) /\ InitWith(o, e)
            \/ \E o \in RegistryOptions : \E e \in RegistryEnvs(o) : InitWith(o, e)
            \/ \E o \in AttribOptions : \E e \in AttribEnvs(o) : InitWith(o, e)

BagInit == \E o \in BagOptions : \E e \in RegistryEnvs(o) : InitWith(o, [e EXCEPT !.activeUniforms = @ \cup {UNIFORM_TIME}])

\* ---------------------------------------------------------------- actions
Commit(r, name) == /\ this' = r.this /\ canvas' = r.canvas /\ raf' = r.raf /\ gl' = r.gl /\ calls' = r.calls /\ op' = name /\ UNCHANGED <<options, env>>

\* new ShaderUp(options)
Constructed(r) == Commit(r, "constructor") /\ phase' = (IF Thrown(r) THEN "failed" ELSE "ready") /\ error' = r.error

Construct == phase = "new" /\ Constructed(constructor(World, options))

Start == phase = "ready" /\ raf.next <= MaxFrames /\ Commit(start(World), "start") /\ UNCHANGED <<phase, error>>

Stop == phase = "ready" /\ Commit(stop(World), "stop") /\ UNCHANGED <<phase, error>>

Dispose == phase = "ready" /\ Commit(dispose(World), "dispose") /\ UNCHANGED <<phase, error>>

SetData == phase = "ready" /\ \E data \in Datas : Commit(setData(World, data), "setData") /\ UNCHANGED <<phase, error>>

SetTexture == phase = "ready" /\ \E name \in NamesOf(options.uniforms) \cup {"u_unknown"} : \E image \in Images : Commit(setTexture(World, name, image), "setTexture") /\ UNCHANGED <<phase, error>>

\* shader.uniforms[name] = value, written by the caller between frames
assignUniform(m, name, value) == [m EXCEPT !.this.uniforms = (name :> value) @@ @]

WriteUniform == phase = "ready" /\ \E name \in NamesOf(options.uniforms) : \E value \in Values : BagValue(this.uniforms, name) # value /\ Commit(assignUniform(World, name, value), "writeUniform") /\ UNCHANGED <<phase, error>>

\* The host runs a pending animation-frame callback: boundRender(time).
Frame ==
  /\ phase = "ready"
  /\ raf.next <= MaxFrames
  /\ \E id \in raf.pending : \E time \in Times : Commit(render([World EXCEPT !.raf.pending = @ \ {id}], time), "frame")
  /\ UNCHANGED <<phase, error>>

\* The page lays the canvas out at another size.
Layout ==
  /\ phase = "ready"
  /\ \E size \in Sizes : size # <<canvas.clientWidth, canvas.clientHeight>> /\ Commit([World EXCEPT !.canvas.clientWidth = size[1], !.canvas.clientHeight = size[2]], "layout")
  /\ UNCHANGED <<phase, error>>

\* The resize observer reports: () => this.handleResize(options.onResize)
Resize == phase = "ready" /\ canvas.observed /\ Commit(handleResize(World, this.onResize), "resize") /\ UNCHANGED <<phase, error>>

\* The host loses the context: its objects are gone, and the canvas gets the
\* webglcontextlost event.
loseContext(m) == [m EXCEPT !.gl.lost = TRUE, !.gl.restorable = FALSE, !.gl.shaders = {}, !.gl.programs = {}, !.gl.buffers = {}, !.gl.textures = {}, !.gl.bufferData = <<>>, !.gl.texImage = <<>>]

dispatchLost(m) == IF "webglcontextlost" \in m.canvas.listeners THEN handleContextLost(m) ELSE m

dispatchRestored(m) == IF "webglcontextrestored" \in m.canvas.listeners THEN handleContextRestored(m) ELSE m

ContextLost ==
  /\ phase = "ready"
  /\ ~gl.lost
  /\ Commit(dispatchLost(loseContext(World)), "contextlost")
  /\ UNCHANGED <<phase, error>>

\* The host restores a context whose loss event was preventDefault()ed.
ContextRestored ==
  /\ phase = "ready"
  /\ gl.lost /\ gl.restorable
  /\ Commit(dispatchRestored([World EXCEPT !.gl.lost = FALSE, !.gl.restorable = FALSE]), "contextrestored")
  /\ UNCHANGED <<phase, error>>

Next == \/ Construct
        \/ Start
        \/ Stop
        \/ Dispose
        \/ SetData
        \/ SetTexture
        \/ Frame
        \/ Layout
        \/ Resize
        \/ ContextLost
        \/ ContextRestored

Spec == Init /\ [][Next]_vars

\* Construction alone, over the whole configuration and host space.
CtorNext == Construct

CtorSpec == CtorInit /\ [][CtorNext]_vars

\* The value-bag and the texture registry between frames: construction, the
\* loop, setTexture, the caller's writes to shader.uniforms, context loss.
BagNext == \/ Construct
           \/ Start
           \/ Stop
           \/ Dispose
           \/ SetTexture
           \/ WriteUniform
           \/ ContextLost
           \/ ContextRestored
           \/ Frame

BagSpec == BagInit /\ [][BagNext]_vars

\* The loop left to run without a bound on its frames. The host's handles are
\* opaque to the renderer (stored, tested for null, handed to
\* cancelAnimationFrame), so the handle counter starts over whenever no
\* handle is live; this keeps the run finite-state. The host fires every
\* frame callback that stays scheduled: weak fairness of LiveFrame.
recycleHandles(m) == IF m.raf.pending = {} /\ m.raf.next > MaxFrames THEN [m EXCEPT !.raf.next = 1] ELSE m

LiveStart == phase = "ready" /\ Commit(start(recycleHandles(World)), "start") /\ UNCHANGED <<phase, error>>

LiveFrame ==
  /\ phase = "ready"
  /\ \E id \in raf.pending : \E time \in Times : \E m \in {recycleHandles([World EXCEPT !.raf.pending = @ \ {id}])} : \E r \in {render(m, time)} : Commit(r, "frame")
  /\ UNCHANGED <<phase, error>>

LiveNext == \/ Construct
            \/ LiveStart
            \/ Stop
            \/ Dispose
            \/ ContextLost
            \/ ContextRestored
            \/ LiveFrame

\* The unbounded loop is followed with one custom uniform in the program.
LiveOptions == {[o EXCEPT !.uniforms = SubSeq(@, 1, 1)] : o \in LoopOptions}

LiveInit == \E o \in LiveOptions : InitWith(o, GoodEnv)

LiveSpec == LiveInit /\ [][LiveNext]_vars /\ WF_vars(LiveFrame)

\* ------------------------------------------------------------ the claims
\* What a log of calls holds.
FrameEffects == {"useProgram", "uniform1f", "uniform2f", "uniform3f", "uniform4f", "uniform1i", "drawArrays", "drawArraysInstanced", "requestAnimationFrame"}
DrawCalls == {"drawArrays", "drawArraysInstanced"}
IsCall(c, f, a) == c.f = f /\ c.a = a
HasCall(log, f, a) == \E i \in 1..Len(log) : IsCall(log[i], f, a)
CountIn(log, fs) == Len(SelectSeq(log, LAMBDA c : c.f \in fs))

\* C1: at most one frame callback is pending in the host queue at any time;
\* start() schedules exactly one frame when no frame is pending and the
\* renderer is not disposed, and schedules nothing otherwise.
C1_StartStep == op' = "start" => IF raf.pending = {} /\ ~this.isDestroyed THEN Count(calls', "requestAnimationFrame") = 1 /\ Cardinality(raf.pending') = 1 ELSE Count(calls', "requestAnimationFrame") = 0 /\ raf.pending' = raf.pending
C1_AtMostOneFramePending == [](Cardinality(raf.pending) <= 1) /\ [][C1_StartStep]_vars

\* C1 witness: a start() that scheduled one frame after earlier frames had run.
C1_Witness == op = "start" /\ Count(calls, "requestAnimationFrame") = 1 /\ Cardinality(raf.pending) = 1 /\ raf.next > 2

\* C2: stop() leaves the loop idle, and from an idle loop no step other than
\* start() executes a frame (no uniform write, no draw call, no reschedule)
\* or leaves a frame pending: after start() then stop() nothing runs until
\* start() is called again.
C2_StopStep == op' = "stop" => this'.animationFrameId = Null /\ raf.pending' = {}
C2_IdleStep == (this.animationFrameId = Null /\ raf.pending = {} /\ op' # "start") => (op' # "frame" /\ CountIn(calls', FrameEffects) = 0 /\ raf.pending' = {} /\ this'.animationFrameId = Null)
C2_NoFrameAfterStop == [][C2_StopStep /\ C2_IdleStep]_vars

\* C2 witness: a stop() that cancelled the frame a start() or a frame had scheduled.
C2_Witness == op = "stop" /\ Count(calls, "cancelAnimationFrame") = 1 /\ raf.pending = {} /\ raf.next > 1

\* C3: Disposed is terminal: once disposed, no step schedules or executes a
\* frame, uploads buffer data or creates a texture, and isDestroyed stays set.
C3_DisposedStep == this.isDestroyed => (this'.isDestroyed /\ op' # "frame" /\ raf.pending' = {} /\ CountIn(calls', FrameEffects \cup {"bufferData", "texImage2D", "createTexture", "createBuffer"}) = 0 /\ gl'.next = gl.next /\ (op' # "contextlost" => gl'.bufferData = gl.bufferData /\ gl'.texImage = gl.texImage))
C3_DisposedIsTerminal == [][C3_DisposedStep]_vars

\* C3 witness: start(), setData() or setTexture() called on a disposed renderer.
C3_Witness == this.isDestroyed /\ op \in {"start", "setData", "setTexture"} /\ raf.next > 1

\* C4: dispose(), in any state, cancels the pending frame, detaches the resize
\* observer and both context listeners, deletes every registered texture, the
\* instance buffer and the program, and leaves the registry empty and the
\* instance-buffer and program handles null.
C4_DisposeStep ==
  op' = "dispose" =>
    /\ raf.pending' = {} /\ this'.animationFrameId = Null
    /\ \A id \in raf.pending : HasCall(calls', "cancelAnimationFrame", <<id>>)
    /\ ~canvas'.observed /\ ~this'.resizeObserver
    /\ canvas'.listeners \cap {"webglcontextlost", "webglcontextrestored"} = {}
    /\ \A i \in 1..Len(this.textures) : this.textures[i].texture \notin gl'.textures /\ HasCall(calls', "deleteTexture", <<this.textures[i].texture>>)
    /\ this.instanceBuffer # Null => this.instanceBuffer \notin gl'.buffers /\ HasCall(calls', "deleteBuffer", <<this.instanceBuffer>>)
    /\ this.program # Null => this.program \notin gl'.programs /\ HasCall(calls', "deleteProgram", <<this.program>>)
    /\ this'.textures = <<>> /\ this'.instanceBuffer = Null /\ this'.program = Null
C4_DisposeReleases == [][C4_DisposeStep]_vars

\* C4 witness: dispose() of a running instanced renderer holding a texture.
C4_Witness == op = "dispose" /\ Count(calls, "cancelAnimationFrame") = 1 /\ Count(calls, "deleteTexture") = 1 /\ Count(calls, "deleteBuffer") = 1 /\ Count(calls, "deleteProgram") = 1 /\ Count(calls, "disconnect") = 1

\* C5: dispose() is idempotent (a second dispose() changes no state), and after
\* the first dispose() every resource handle the renderer created (program,
\* textures, instance buffer, geometry vertex buffer) is null or released.
C5_SecondDisposeStep == (this.isDestroyed /\ op' = "dispose") => (this' = this /\ canvas' = canvas /\ raf' = raf /\ gl' = gl)
C5_AllReleased == this.isDestroyed => (this.program = Null /\ this.instanceBuffer = Null /\ this.textures = <<>> /\ gl.programs = {} /\ gl.textures = {} /\ gl.buffers = {} /\ gl.shaders = {})
C5_DisposeIdempotentAndComplete == [](C5_AllReleased) /\ [][C5_SecondDisposeStep]_vars

\* C6: every executed frame issues exactly one draw call and then schedules
\* exactly one next frame: drawArrays of 3 vertices in fullscreen mode,
\* drawArraysInstanced of 6 vertices and options.numInstances instances in
\* instanced mode.
C6_IsExpectedDraw(c) == IF RenderModeOf(options) = "instanced" THEN IsCall(c, "drawArraysInstanced", <<0, 6, options.numInstances>>) ELSE IsCall(c, "drawArrays", <<0, 3>>)
C6_FrameDrawsOnceThenReschedules == op = "frame" => (Len(calls) >= 2 /\ CountIn(calls, DrawCalls) = 1 /\ Count(calls, "requestAnimationFrame") = 1 /\ C6_IsExpectedDraw(calls[Len(calls) - 1]) /\ calls[Len(calls)].f = "requestAnimationFrame" /\ Cardinality(raf.pending) = 1 /\ this.animationFrameId \in raf.pending)

\* C6 witness: a second frame of an instanced renderer with several instances.
C6_Witness == op = "frame" /\ this.renderMode = "instanced" /\ this.numInstances > 1 /\ raf.next > 3

\* C7: constructing in instanced mode without numInstances (or with zero) or
\* without attributes fails with a configuration error before any surface
\* lookup, context acquisition, listener attachment or GPU allocation.
ConfigInvalid == RenderModeOf(options) = "instanced" /\ (~options.numInstancesGiven \/ options.numInstances = 0 \/ ~options.attributesGiven)
C7_ConfigErrorBeforeAnything == (op = "constructor" /\ ConfigInvalid) => (phase = "failed" /\ error.kind = "config" /\ calls = <<>> /\ gl = NewGL /\ canvas.listeners = {} /\ ~canvas.observed /\ this.canvas = "none")

\* C7 witness: instanced mode with numInstances given and attributes missing,
\* on a page where everything else would have succeeded.
C7_Witness == op = "constructor" /\ error.kind = "config" /\ options.numInstances > 0 /\ ~options.attributesGiven /\ options.canvasIdGiven /\ env = GoodEnv

\* C8: a stage that fails to compile, or a program that fails to link, makes
\* construction fail with an error carrying that stage's (the linker's)
\* diagnostic text, the invalid handle having been deleted before the throw.
StageOf(shader) == calls[CHOOSE i \in 1..Len(calls) : calls[i].f = "shaderSource" /\ calls[i].a[1] = shader].a[2]
C8_CompileFailure == \A i \in 1..Len(calls) : (calls[i].f = "compileShader" /\ ~env.compiles[StageOf(calls[i].a[1])]) => (phase = "failed" /\ error = [kind |-> "compile", log |-> env.infoLog[StageOf(calls[i].a[1])]] /\ calls[i].a[1] \notin gl.shaders /\ IsCall(calls[Len(calls)], "deleteShader", calls[i].a))
C8_LinkFailure == \A i \in 1..Len(calls) : (calls[i].f = "linkProgram" /\ ~env.links) => (phase = "failed" /\ error = [kind |-> "link", log |-> env.infoLog.program] /\ calls[i].a[1] \notin gl.programs /\ this.program = Null /\ IsCall(calls[Len(calls)], "deleteProgram", calls[i].a))
C8_BuildErrorsCarryLogAndRelease == op = "constructor" => (C8_CompileFailure /\ C8_LinkFailure)

\* C8 witness: the vertex stage compiled and the fragment stage did not.
C8_Witness == op = "constructor" /\ error.kind = "compile" /\ error.log = "fragment diagnostic" /\ Count(calls, "compileShader") = 2

\* C9: a failed construction leaves nothing behind: no context listener on the
\* canvas, no resize observer, no unreleased shader, program or buffer.
C9_FailedConstructionLeavesNothing == phase = "failed" => (canvas.listeners = {} /\ ~canvas.observed /\ gl.shaders = {} /\ gl.programs = {} /\ gl.buffers = {} /\ gl.textures = {})

\* C10: exactly the declared uniforms that are sampler-typed and resolve in
\* the program get a texture unit; the units are 0, 1, 2, ... in declaration
\* order, without gaps, none shared; other uniforms consume no unit.
ResolvedSampler(j) == options.uniforms[j].type = "sampler2D" /\ options.uniforms[j].name \in env.activeUniforms
ExpectedUnit(j) == IF ResolvedSampler(j) THEN Cardinality({i \in 1..(j - 1) : ResolvedSampler(i)}) ELSE -1
RegisteredUnit(name) == IF \E i \in 1..Len(this.uniformInfo) : this.uniformInfo[i].name = name THEN (CHOOSE info \in {this.uniformInfo[i] : i \in 1..Len(this.uniformInfo)} : info.name = name).textureUnit ELSE -1
UnitsInUse == {this.uniformInfo[i].textureUnit : i \in 1..Len(this.uniformInfo)} \ {-1}
C10_SamplerUnitsDense ==
  phase = "ready" =>
    /\ \A j \in 1..Len(options.uniforms) : RegisteredUnit(options.uniforms[j].name) = ExpectedUnit(j)
    /\ UnitsInUse = 0..(Cardinality(UnitsInUse) - 1)
    /\ \A i, j \in 1..Len(this.uniformInfo) : (i # j /\ this.uniformInfo[i].textureUnit # -1) => this.uniformInfo[i].textureUnit # this.uniformInfo[j].textureUnit

\* C11: once setTexture has been applied to a registered sampler (its unit has
\* an entry in the texture registry), every executed frame writes that
\* sampler's unit index to its location, whatever the value-bag holds.
SamplerOfUnit(unit) == CHOOSE i \in 1..Len(this.uniformInfo) : this.uniformInfo[i].textureUnit = unit
C11_FramesBindAssignedSamplers == op = "frame" => \A t \in 1..Len(this.textures) : HasCall(calls, "uniform1i", <<this.uniformInfo[SamplerOfUnit(this.textures[t].unit)].location, this.textures[t].unit>>)

\* C10 witness: two registered samplers around a declared one that did not
\* resolve: the later sampler takes unit 1.
C10_Witness == phase = "ready" /\ Len(options.uniforms) = 3 /\ ResolvedSampler(1) /\ options.uniforms[2].type = "sampler2D" /\ ~ResolvedSampler(2) /\ ResolvedSampler(3) /\ RegisteredUnit(options.uniforms[3].name) = 1

\* The attribute the program has at a location, and the byte size of a list.
RECURSIVE ByteSize(_)
ByteSize(attrs) == IF attrs = <<>> THEN 0 ELSE 4 * Head(attrs).size + ByteSize(Tail(attrs))
IsResolved(j) == \E i \in 1..Len(env.activeAttribs) : env.activeAttribs[i] = options.attributes[j].name
LocationOf(j) == (CHOOSE i \in 1..Len(env.activeAttribs) : env.activeAttribs[i] = options.attributes[j].name) - 1
PointerCallsOf(j) == {i \in 1..Len(calls) : calls[i].f = "vertexAttribPointer" /\ calls[i].a[1] = LocationOf(j)}
InstancedSetup == op = "constructor" /\ phase = "ready" /\ RenderModeOf(options) = "instanced"

\* C12: in instanced mode each enabled attribute is configured at the byte
\* offset that is the sum of the byte sizes of all attributes declared before
\* it, resolved or not: an unresolved attribute's slot is left unused.
C12_OffsetsCountSkippedSlots == InstancedSetup => \A j \in 1..Len(options.attributes) : IsResolved(j) => (PointerCallsOf(j) # {} /\ \A i \in PointerCallsOf(j) : calls[i].a[4] = ByteSize(SubSeq(options.attributes, 1, j - 1)))

\* C13: in instanced mode every enabled attribute is configured with a byte
\* stride of 4 times the sum of the component counts of all declared
\* attributes, whichever names the program lacks.
C13_StrideCountsEveryDeclared == InstancedSetup => \A j \in 1..Len(options.attributes) : IsResolved(j) => (Cardinality(PointerCallsOf(j)) = 1 /\ \A i \in PointerCallsOf(j) : calls[i].a[2] = options.attributes[j].size /\ calls[i].a[3] = ByteSize(options.attributes))

\* C13 witness: three declared attributes, the middle one not in the program:
\* the two enabled ones carry the stride of all three.
C13_Witness == InstancedSetup /\ Len(options.attributes) = 3 /\ IsResolved(1) /\ ~IsResolved(2) /\ IsResolved(3) /\ Count(calls, "vertexAttribPointer") = 3 /\ HasCall(calls, "vertexAttribPointer", <<3, options.attributes[3].size, ByteSize(options.attributes), 4 * options.attributes[1].size>>)

\* C14: setData(data) does nothing at all (no call, no state change) when the
\* mode is not instanced or the renderer is disposed; otherwise it binds the
\* instance buffer and hands the context the whole of data as its new content
\* (which a context that still has the buffer stores in place of the old
\* content), for data of any length, raising no error and changing no field
\* of the renderer.
C14_IsNoOp == this.renderMode # "instanced" \/ this.isDestroyed
\* the context still has the instance buffer (it has not been lost since construction)
C14_BufferLive == ~gl.lost /\ this.instanceBuffer \in gl.buffers
C14_SetDataStep ==
  op' = "setData" =>
    IF C14_IsNoOp THEN calls' = <<>> /\ this' = this /\ gl' = gl /\ canvas' = canvas /\ raf' = raf /\ error' = NoError
    ELSE /\ Len(calls') = 2 /\ IsCall(calls'[1], "bindBuffer", <<this.instanceBuffer>>) /\ calls'[2].f = "bufferData"
         /\ C14_BufferLive => (gl'.bufferData[this.instanceBuffer] = calls'[2].a[1] /\ gl'.buffers = gl.buffers)
         /\ this' = this /\ canvas' = canvas /\ raf' = raf /\ error' = NoError
C14_Stores(r, data) == ~Thrown(r) /\ this.instanceBuffer \in DOMAIN r.gl.bufferData /\ r.gl.bufferData[this.instanceBuffer] = data
C14_AnyLengthAccepted == (phase = "ready" /\ ~C14_IsNoOp /\ C14_BufferLive) => \A data \in Datas : C14_Stores(setData(World, data), data)
C14_SetDataNoOpOrReplace == [](C14_AnyLengthAccepted) /\ [][C14_SetDataStep]_vars

\* C14 witness: setData() stored a buffer whose length is not numInstances
\* times the floats per instance.
C14_Witness == op = "setData" /\ ~C14_IsNoOp /\ C14_BufferLive /\ HasCall(calls, "bufferData", <<gl.bufferData[this.instanceBuffer]>>) /\ Len(gl.bufferData[this.instanceBuffer]) * FloatBytes # this.numInstances * Stride(this.attributeOptions)

\* C15: the instance count of every instanced draw call is the numInstances
\* given at construction; setData, with a buffer of any length, leaves the
\* renderer's instance count as it was.
C15_SetDataKeepsCount == op' = "setData" => this'.numInstances = this.numInstances
C15_DrawsUseConfiguredCount == (phase = "ready" /\ RenderModeOf(options) = "instanced") => (this.numInstances = options.numInstances /\ \A i \in 1..Len(calls) : calls[i].f = "drawArraysInstanced" => calls[i].a[3] = options.numInstances)
C15_InstanceCountFixed == [](C15_DrawsUseConfiguredCount) /\ [][C15_SetDataKeepsCount]_vars

\* C15 witness: an instanced frame drawn while the instance buffer holds data
\* of another length than numInstances.
C15_Witness == op = "frame" /\ Count(calls, "drawArraysInstanced") = 1 /\ this.instanceBuffer \in DOMAIN gl.bufferData /\ Len(gl.bufferData[this.instanceBuffer]) # this.numInstances

\* C16: on a renderer that is not disposed, setTexture(name, image) with a
\* name that is not registered, or registered with another type than
\* sampler2D, emits one warning and does nothing else: no texture created, no
\* unit bound, no upload, no error, no state change.
TextureNames == NamesOf(options.uniforms) \cup {"u_unknown"}
NotASampler(name) == \A i \in 1..Len(this.uniformInfo) : this.uniformInfo[i].name = name => this.uniformInfo[i].type # "sampler2D"
WarnsOnly(r, name) == Len(r.calls) = 1 /\ IsCall(r.calls[1], "console.warn", <<"not a registered sampler2D uniform", name>>) /\ r.this = this /\ r.gl = gl /\ r.canvas = canvas /\ r.raf = raf /\ ~Thrown(r)
C16_EveryCall == (phase = "ready" /\ ~this.isDestroyed) => \A name \in TextureNames : \A image \in Images : NotASampler(name) => WarnsOnly(setTexture(World, name, image), name)
C16_WarnedStep == (op' = "setTexture" /\ Count(calls', "console.warn") > 0) => (Len(calls') = 1 /\ NotASampler(calls'[1].a[2]) /\ this' = this /\ gl' = gl /\ canvas' = canvas /\ raf' = raf)
Uploaded(log) == Count(log, "activeTexture") = 1
UploadUnit(log) == CallsOf(log, "activeTexture")[1].a[1]
UploadImage(log) == CallsOf(log, "texImage2D")[1].a[1]
RegisteredSamplers == {i \in 1..Len(this.uniformInfo) : this.uniformInfo[i].type = "sampler2D"}
C17_RegistryBounded == /\ \A i, j \in 1..Len(this.textures) : i # j => this.textures[i].unit # this.textures[j].unit
                       /\ Len(this.textures) <= Cardinality(RegisteredSamplers)
                       /\ \A i \in 1..Len(this.textures) : \E k \in RegisteredSamplers : this.uniformInfo[k].textureUnit = this.textures[i].unit
C17_ContentReplaced == TexGet(this'.textures, UploadUnit(calls')) \in gl'.textures => gl'.texImage[TexGet(this'.textures, UploadUnit(calls'))] = UploadImage(calls')
C17_Created == Count(calls', "createTexture") = 1 /\ TexIndex(this'.textures, UploadUnit(calls')) # 0 /\ (~gl.lost => (gl'.next = gl.next + 1 /\ TexGet(this'.textures, UploadUnit(calls')) = gl.next /\ gl'.textures = gl.textures \cup {gl.next}))
C17_Reused == Count(calls', "createTexture") = 0 /\ this'.textures = this.textures /\ gl'.textures = gl.textures /\ gl'.next = gl.next

\* C17 as stated: the first setTexture for a sampler (its unit has no registry
\* entry) creates exactly one texture, every later one creates none and keeps
\* the handle; the registry holds at most one texture per unit and no more
\* textures than registered samplers.
C17_FirstCreatesLaterReuse == (op' = "setTexture" /\ Uploaded(calls')) => (C17_ContentReplaced /\ IF TexIndex(this.textures, UploadUnit(calls')) = 0 THEN C17_Created ELSE C17_Reused)
C17_CreatesWhenNoHandle == (op' = "setTexture" /\ Uploaded(calls')) => (C17_ContentReplaced /\ IF TexGet(this.textures, UploadUnit(calls')) = Null THEN C17_Created ELSE C17_Reused)
C18_IsPass == (op' = "constructor" /\ phase' = "ready") \/ op' = "resize"
C18_Differs == canvas.width # canvas.clientWidth \/ canvas.height # canvas.clientHeight
C18_Resized == /\ canvas'.width = canvas.clientWidth /\ canvas'.height = canvas.clientHeight
               /\ canvas'.clientWidth = canvas.clientWidth /\ canvas'.clientHeight = canvas.clientHeight
               /\ Count(calls', "viewport") = 1 /\ HasCall(calls', "viewport", <<0, 0, canvas.clientWidth, canvas.clientHeight>>)
               /\ Count(calls', "onResize") = (IF options.onResizeGiven THEN 1 ELSE 0)
               /\ options.onResizeGiven => HasCall(calls', "onResize", <<canvas.clientWidth, canvas.clientHeight>>)
               /\ op' = "resize" => (Len(calls') = (IF options.onResizeGiven THEN 2 ELSE 1) /\ calls'[1].f = "viewport")
C18_Untouched == /\ canvas'.width = canvas.width /\ canvas'.height = canvas.height
                 /\ Count(calls', "viewport") = 0 /\ Count(calls', "onResize") = 0
                 /\ op' = "resize" => (calls' = <<>> /\ canvas' = canvas /\ this' = this /\ gl' = gl /\ raf' = raf)
C18_PassStep == C18_IsPass => IF C18_Differs THEN C18_Resized ELSE C18_Untouched
C18_ResizePass == [][C18_PassStep]_vars

\* C18 witness: the observer's pass after the page laid the canvas out at
\* 300 x 600: one viewport call, one onResize(300, 600).
C18_Witness == op = "resize" /\ Len(calls) = 2 /\ IsCall(calls[1], "viewport", <<0, 0, 300, 600>>) /\ IsCall(calls[2], "onResize", <<300, 600>>) /\ canvas.width = 300 /\ canvas.height = 600

\* C19: a context-loss event leaves the loop idle (no frame pending, no frame
\* handle); a context-restoration event changes no field of the renderer,
\* schedules nothing and creates no GL object; and from an idle loop no frame
\* runs and none becomes pending by any step other than start(), a
\* restoration included.
C19_LossStep == op' = "contextlost" => (raf.pending' = {} /\ this'.animationFrameId = Null /\ Count(calls', "requestAnimationFrame") = 0 /\ ("webglcontextlost" \in canvas.listeners => HasCall(calls', "preventDefault", <<>>)))
C19_RestoreStep == op' = "contextrestored" => (this' = this /\ raf' = raf /\ canvas' = canvas /\ gl' = [gl EXCEPT !.lost = FALSE, !.restorable = FALSE] /\ \A i \in 1..Len(calls') : calls'[i].f = "console.log")
C19_FrozenStep == (this.animationFrameId = Null /\ raf.pending = {} /\ op' # "start") => (op' # "frame" /\ raf.pending' = {} /\ this'.animationFrameId = Null /\ Count(calls', "requestAnimationFrame") = 0)
C19_LossStopsRestoreInert == [][C19_LossStep /\ C19_RestoreStep /\ C19_FrozenStep]_vars

\* C19 witness: the loss event reached a running loop, after at least one
\* frame, and its handler cancelled the pending frame.
C19_Witness == op = "contextlost" /\ HasCall(calls, "preventDefault", <<>>) /\ Count(calls, "cancelAnimationFrame") = 1 /\ raf.next > 2 /\ raf.pending = {} /\ ~this.isDestroyed

\* C20: a declared uniform that does not resolve in the linked program does
\* not make construction fail, is in neither the registry nor the seeded
\* value-bag, and no frame submits anything for it: every uniform call of a
\* frame addresses the location of a name the program has, whatever the
\* caller wrote into the value-bag under the unresolved name.
UniformCalls == {"uniform1f", "uniform2f", "uniform3f", "uniform4f", "uniform1i"}
Unresolved(j) == options.uniforms[j].name \notin env.activeUniforms
C20_Omitted == \A j \in 1..Len(options.uniforms) : Unresolved(j) => (InfoIndex(this.uniformInfo, options.uniforms[j].name) = 0 /\ (op = "constructor" => options.uniforms[j].name \notin DOMAIN this.uniforms))
C20_NeverSubmitted == \A i \in 1..Len(calls) : calls[i].f \in UniformCalls => (calls[i].a[1] \in env.activeUniforms /\ \A j \in 1..Len(options.uniforms) : Unresolved(j) => calls[i].a[1] # options.uniforms[j].name)
C20_UnresolvedUniformsInert == (op = "constructor" => phase = "ready") /\ (phase = "ready" => (C20_Omitted /\ C20_NeverSubmitted))

\* C20 witness: a frame run after the caller wrote a number under a declared
\* name the program does not have, while another declared uniform is submitted.
C20_Witness == op = "frame" /\ CountIn(calls, UniformCalls) > 1 /\ \E j \in 1..Len(options.uniforms) : Unresolved(j) /\ BagValue(this.uniforms, options.uniforms[j].name).t = "num"

\* C21: after a successful construction the value-bag holds, for every
\* registered uniform, the default of its declared type: the number 0 for
\* float and int, a tuple of 2, 3 or 4 zeros for vec2, vec3 or vec4, null for
\* sampler2D.
ComponentCount(type) == CASE type = "vec2" -> 2 [] type = "vec3" -> 3 [] type = "vec4" -> 4 [] OTHER -> 1
IsDefaultOf(value, type) ==
  IF type = "sampler2D" THEN value.t = "null"
  ELSE IF type \in {"float", "int"} THEN value.t = "num" /\ value.v = <<0>>
  ELSE value.t = "tuple" /\ Len(value.v) = ComponentCount(type) /\ \A k \in 1..Len(value.v) : value.v[k] = 0
C21_SeededDefaultsFitType == (op = "constructor" /\ phase = "ready") => (DOMAIN this.uniforms = {this.uniformInfo[i].name : i \in 1..Len(this.uniformInfo)} /\ \A i \in 1..Len(this.uniformInfo) : IsDefaultOf(this.uniforms[this.uniformInfo[i].name], this.uniformInfo[i].type))

\* C21 witness: a vec3, a sampler2D and a vec4 registered and seeded.
C21_Witness == op = "constructor" /\ phase = "ready" /\ Len(this.uniformInfo) = 3 /\ this.uniformInfo[1].type = "vec3" /\ this.uniformInfo[2].type = "sampler2D" /\ this.uniformInfo[3].type = "vec4" /\ this.uniforms["u_c"] = Tuple(<<0, 0, 0, 0>>)

\* How the constructor resolved its canvas, given whether an id counts as given.
SurfaceFailed == phase = "failed" /\ error.kind = "surface" /\ this.canvas = "none"
UsesExplicit == this.canvas = "explicit" /\ Count(calls, "getElementById") = 0 /\ Count(calls, "querySelector") = 0
UsesId == Count(calls, "querySelector") = 0 /\ HasCall(calls, "getElementById", <<options.canvasId>>) /\ IF env.elementById THEN this.canvas = "byId" ELSE SurfaceFailed
UsesFirst == Count(calls, "getElementById") = 0 /\ HasCall(calls, "querySelector", <<"canvas">>) /\ IF env.firstCanvas THEN this.canvas = "first" ELSE SurfaceFailed
Resolution(idGiven) == IF options.canvasGiven THEN UsesExplicit ELSE IF idGiven THEN UsesId ELSE UsesFirst

\* C22 as stated: an explicit canvas is used whenever given; otherwise, if a
\* canvasId is given, the element of that id is used and construction fails
\* when there is none, without falling back to the first canvas; otherwise
\* the first canvas of the page is used, and construction fails without one.
C22_SurfaceResolution == (op = "constructor" /\ ~ConfigInvalid) => Resolution(options.canvasIdGiven)

\* C22, amended: the same, where a canvasId counts as given only when it is
\* a non-empty string: with an empty canvasId (and no explicit canvas) the
\* first canvas of the page is used, as when no id is given.
C22_SurfaceResolutionNonEmptyId == (op = "constructor" /\ ~ConfigInvalid) => Resolution(options.canvasIdGiven /\ options.canvasId # "")

\* C22 witness: an id no element has, on a page that has a canvas:
\* construction failed instead of taking the first canvas.
C22_Witness == op = "constructor" /\ ~options.canvasGiven /\ options.canvasId = "main" /\ ~env.elementById /\ env.firstCanvas /\ SurfaceFailed /\ calls = <<[f |-> "getElementById", a |-> <<"main">>]>>

\* C23: once the canvas is resolved, instanced mode asks for a WebGL2 context
\* only and fails with a context error when there is none; fullscreen mode
\* asks for WebGL2, then for WebGL1 when WebGL2 is unavailable, and fails
\* with a context error only when both are unavailable.
ContextRequests == [i \in 1..Count(calls, "getContext") |-> CallsOf(calls, "getContext")[i].a[1]]
ContextFailed == phase = "failed" /\ error.kind = "context" /\ gl.kind = "none" /\ canvas.listeners = {}
C23_Instanced == IF env.webgl2 THEN ContextRequests = <<"webgl2">> /\ gl.kind = "webgl2" /\ error.kind # "context" ELSE ContextRequests = <<"webgl2">> /\ ContextFailed
C23_Fullscreen == IF env.webgl2 THEN ContextRequests = <<"webgl2">> /\ gl.kind = "webgl2" /\ error.kind # "context"
                  ELSE IF env.webgl THEN ContextRequests = <<"webgl2", "webgl">> /\ gl.kind = "webgl" /\ error.kind # "context"
                  ELSE ContextRequests = <<"webgl2", "webgl">> /\ ContextFailed
C23_ContextAcquisition == (op = "constructor" /\ this.canvas # "none") => IF RenderModeOf(options) = "instanced" THEN C23_Instanced ELSE C23_Fullscreen

\* C23 witness: a fullscreen renderer constructed on a host that has WebGL1 only.
C23_Witness == op = "constructor" /\ phase = "ready" /\ RenderModeOf(options) = "fullscreen" /\ ~env.webgl2 /\ gl.kind = "webgl" /\ this.program # Null

\* The uniform calls of a log addressed to a location, and what the call of a
\* type passes for a value: the number, or the first components of the tuple.
SubmissionsOf(log, loc) == {k \in 1..Len(log) : log[k].f \in UniformCalls /\ log[k].a[1] = loc}
CallFor(type) == CASE type = "float" -> "uniform1f" [] type = "vec2" -> "uniform2f" [] type = "vec3" -> "uniform3f" [] type = "vec4" -> "uniform4f" [] OTHER -> "uniform1i"
ArgsFor(type, value) == IF type \in {"float", "int"} THEN <<IF value.t = "num" THEN value.v[1] ELSE NaN>> ELSE [k \in 1..ComponentCount(type) |-> IF value.t = "tuple" /\ k <= Len(value.v) THEN value.v[k] ELSE NaN]
FitsType(value, type) == IF type \in {"float", "int"} THEN value.t = "num" ELSE value.t = "tuple" /\ Len(value.v) = ComponentCount(type)
IsSkipped(name) == BagValue(this.uniforms, name).t \in {"null", "undefined"}

\* C24: a frame submits, for each registered non-sampler uniform whose entry
\* is not null or undefined, exactly one call of the type's kind carrying
\* what the value-bag holds for that name when the frame runs (for a value of
\* the type's shape, that value itself); a write to the value-bag submits
\* nothing by itself and a frame leaves the value-bag as it is, so only the
\* last write before a frame is submitted, by that frame.
C24_IsValueOf(c, info) == c.f = CallFor(info.type) /\ c.a = <<info.location>> \o ArgsFor(info.type, this.uniforms[info.name]) /\ (FitsType(this.uniforms[info.name], info.type) => Tail(c.a) = this.uniforms[info.name].v)
C24_Submitted(info) == Cardinality(SubmissionsOf(calls', info.location)) = 1 /\ \A k \in SubmissionsOf(calls', info.location) : C24_IsValueOf(calls'[k], info)
C24_FrameStep == op' = "frame" => (this'.uniforms = this.uniforms /\ \A i \in 1..Len(this.uniformInfo) : (this.uniformInfo[i].type # "sampler2D" /\ ~IsSkipped(this.uniformInfo[i].name)) => C24_Submitted(this.uniformInfo[i]))
C24_WriteStep == op' = "writeUniform" => (calls' = <<>> /\ gl' = gl /\ raf' = raf /\ canvas' = canvas)
C24_FrameSubmitsCurrentValues == [][C24_FrameStep /\ C24_WriteStep]_vars

\* C24 witness: the second frame of a loop submitted the number 5 the caller
\* had stored under a float uniform seeded with 0.
C24_Witness == op = "frame" /\ raf.next > 3 /\ HasCall(calls, "uniform1f", <<"u_a", 5>>) /\ this.uniforms["u_a"] = Num(5)

\* C25: a frame issues no uniform call for a registered uniform whose entry
\* is null or undefined, still writes every other registered uniform and the
\* standard ones, draws once and reschedules once; and no operation other
\* than a frame issues a uniform call, so the uniform keeps on the GPU what
\* the last frame that found a value wrote.
C25_Written(info) == IF IsSkipped(info.name) THEN SubmissionsOf(calls', info.location) = {} ELSE Cardinality(SubmissionsOf(calls', info.location)) = 1
C25_FrameStep == op' = "frame" => /\ \A i \in 1..Len(this.uniformInfo) : C25_Written(this.uniformInfo[i])
                                  /\ this.timeLocation # NullLocation => Cardinality(SubmissionsOf(calls', this.timeLocation)) = 1
                                  /\ CountIn(calls', DrawCalls) = 1 /\ Count(calls', "requestAnimationFrame") = 1 /\ Cardinality(raf.pending') = 1
C25_OtherStep == op' # "frame" => CountIn(calls', UniformCalls) = 0
C25_NullEntriesSkipped == [][C25_FrameStep /\ C25_OtherStep]_vars

\* C25 witness: a frame that ran after the caller set a vec2 uniform to null:
\* nothing written for it, the int uniform next to it written.
C25_Witness == op = "frame" /\ InfoIndex(this.uniformInfo, "u_a") # 0 /\ this.uniformInfo[InfoIndex(this.uniformInfo, "u_a")].type = "vec2" /\ this.uniforms["u_a"] = NullValue /\ SubmissionsOf(calls, "u_a") = {} /\ Cardinality(SubmissionsOf(calls, "u_b")) = 1

\* C26: stop() changes nothing but the loop state: every field of the renderer
\* other than the frame handle, the GL objects and the canvas with its
\* listeners and observer stay as they were; it does nothing at all when no
\* frame handle is stored; and start() on an idle, non-disposed renderer
\* schedules a frame again.
C26_StopStep == op' = "stop" => /\ this' = [this EXCEPT !.animationFrameId = Null] /\ gl' = gl /\ canvas' = canvas /\ raf'.next = raf.next
                                /\ this.animationFrameId = Null => (calls' = <<>> /\ raf' = raf)
                                /\ this.animationFrameId # Null => (Len(calls') = 1 /\ IsCall(calls'[1], "cancelAnimationFrame", <<this.animationFrameId>>))
C26_ResumeStep == (op' = "start" /\ this.animationFrameId = Null /\ ~this.isDestroyed) => (Count(calls', "requestAnimationFrame") = 1 /\ Cardinality(raf.pending') = 1 /\ this'.animationFrameId \in raf.pending')
C26_StopKeepsResources == [][C26_StopStep /\ C26_ResumeStep]_vars

\* C26 witness: stop() cancelled the frame of a loop that had run a frame and
\* holds a texture; the program and the texture are still live.
C26_Witness == op = "stop" /\ Count(calls, "cancelAnimationFrame") = 1 /\ raf.next > 2 /\ Len(this.textures) = 1 /\ this.textures[1].texture \in gl.textures /\ this.program \in gl.programs /\ canvas.observed

\* C28: only an executed frame issues a draw call: the call log of every
\* other operation (construction, start, stop, setData, setTexture, dispose,
\* a resize pass, a context event) holds none, and a frame's holds one.
C28_DrawsOnlyInFrames == IF op = "frame" THEN CountIn(calls, DrawCalls) = 1 ELSE CountIn(calls, DrawCalls) = 0

\* C28 witness: setData() uploaded instance data between two frames of a
\* running loop and drew nothing.
C28_Witness == op = "setData" /\ Count(calls, "bufferData") = 1 /\ raf.next > 2 /\ raf.pending # {} /\ CountIn(calls, DrawCalls) = 0

\* C29: between callbacks the stored frame handle is non-null exactly when a
\* frame callback is pending, and then it is the handle of the one pending
\* callback; a frame callback never runs on a disposed renderer or without
\* a program, so render's early return is never taken.
C29_HandleMatchesQueue == IF this.animationFrameId = Null THEN raf.pending = {} ELSE raf.pending = {this.animationFrameId}
C29_FrameStep == op' = "frame" => (~this.isDestroyed /\ this.program # Null /\ this.animationFrameId \in raf.pending /\ Count(calls', "useProgram") = 1)
C29_HandleIffPending == [](C29_HandleMatchesQueue) /\ [][C29_FrameStep]_vars

\* C29 witness: a disposed renderer that had a running loop: no handle, no
\* pending callback.
C29_Witness == this.isDestroyed /\ op = "dispose" /\ Count(calls, "cancelAnimationFrame") = 1 /\ raf.next > 2 /\ this.animationFrameId = Null /\ raf.pending = {}

\* C27: every executed frame leaves exactly one next frame pending, and,
\* the host firing the callbacks that stay scheduled, a pending frame always
\* leads to its execution (after which the next one is pending) unless
\* stop(), dispose() or a context-loss event empties the queue first: a
\* running loop that is not interrupted executes frames for ever.
C27_FrameStep == op' = "frame" => (Count(calls', "requestAnimationFrame") = 1 /\ Cardinality(raf.pending') = 1 /\ raf.pending' # raf.pending /\ this'.animationFrameId \in raf.pending')
C27_Executed(h) == op = "frame" /\ raf.pending # {h} /\ raf.pending # {}
C27_Interrupted == op \in {"stop", "dispose", "contextlost"} /\ raf.pending = {}
C27_LoopNeverStalls == [][C27_FrameStep]_vars /\ \A h \in 1..MaxFrames : (raf.pending = {h}) ~> (C27_Executed(h) \/ C27_Interrupted)

\* C27 witness: a frame executed after the handle counter had started over,
\* that is after more frames than MaxFrames were requested.
C27_Witness == op = "frame" /\ raf.pending = {1} /\ this.animationFrameId = 1 /\ ~this.isDestroyed

====
